---- MODULE Spec2Model ----
(***************************************************************************)
(* A model of kaag/simulation/simulator.py: the Simulator object and its   *)
(* run_interaction method.  A call of run_interaction is executed one      *)
(* collaborator call at a time (pc is the position in the method); every   *)
(* collaborator (dbn, retriever, knowledge_integrator, llm, analyzers) is  *)
(* an opaque object whose answer, or exception, is chosen here.            *)
(*                                                                         *)
(* Strings are sequences of one-character strings; the two literals of the *)
(* method are one symbol each.  Scores are in tenths (0.5 is 5).           *)
(***************************************************************************)
EXTENDS Integers, Sequences, FiniteSets, TLC

(* ------------------------------ bounds -------------------------------- *)

\* run_interaction is called at most MaxCalls times
MaxCalls == 4
\* config['simulation']['max_turns'] is drawn from 0..MaxTurnsCfg
MaxTurnsCfg == 2
\* the analyzers list holds at most MaxAnalyzers analyzers
MaxAnalyzers == 2
\* an llm response holds at most MaxLen characters
MaxLen == 2

(* ------------------------------ strings ------------------------------- *)

Chars == {"a", "A"}

MaxTurnMessage == <<"Maximum turns reached. Ending conversation.">>

EndSuffix == <<"\nConversation ended.">>

\* str.lower() on one character
LowerChar(c) ==
    CASE c = "A" -> "a"
      [] c = "Maximum turns reached. Ending conversation."
           -> "maximum turns reached. ending conversation."
      [] c = "\nConversation ended." -> "\nconversation ended."
      [] OTHER -> c

\* str.lower()
Lower(s) == [i \in 1..Len(s) |-> LowerChar(s[i])]

\* Python's  p in s  on strings
Contains(p, s) ==
    \E i \in 0..(Len(s) - Len(p)) : SubSeq(s, i + 1, i + Len(p)) = p

StringsUpTo(n) == UNION {[1..k -> Chars] : k \in 0..n}

\* what llm.generate may answer to the response prompt
Responses == StringsUpTo(MaxLen) \cup {MaxTurnMessage}

UserInputs == {<<"a">>}

(* ---------------------------- dictionaries ---------------------------- *)

EmptyDict == [k \in {} |-> 0]

\* dict.update(d)
DictUpdate(r, d) ==
    [k \in (DOMAIN r) \cup (DOMAIN d) |-> IF k \in DOMAIN d THEN d[k] ELSE r[k]]

\* dict.get(k, default)
DictGet(r, k, default) == IF k \in DOMAIN r THEN r[k] ELSE default

\* the default of analysis_results.get('satisfaction_score', 0.5), in tenths
DefaultSatisfaction == 5

\* what one analyzer.analyze call may return
AnalyzerDicts ==
    { ("satisfaction_score" :> 3),
      ("engagement" :> 3),
      ("satisfaction_score" :> 8 @@ "engagement" :> 8) }

\* ... or it raises an Exception
AnalyzerOutcomes ==
    {[raised |-> TRUE, value |-> EmptyDict]}
        \cup {[raised |-> FALSE, value |-> d] : d \in AnalyzerDicts}

(* ---------------------------- collaborators --------------------------- *)

None == [action |-> "None", message |-> <<>>]

\* what dbn.check_triggers may return besides None
Triggers ==
    { [action |-> "escalate", message |-> <<"t">>] }

EndPhraseLists ==
    { <<>>,
      << <<"a">> >>,
      << <<"A">> >>,
      << <<"A", "a">>, <<"a", "a">> >> }

Configs ==
    [ max_turns : 0..MaxTurnsCfg,
      end_phrases : EndPhraseLists,
      triggers : {"triggers"} ]

NoContext ==
    [ dbn_context |-> [updates |-> -1, learns |-> -1],
      retrieved_knowledge |-> "none",
      integrated_knowledge |-> "none",
      user_input |-> <<>> ]

Call(fn, who, ok) == [fn |-> fn, who |-> who, ok |-> ok]

NoResult == [kind |-> "none", value |-> <<>>, from |-> "none"]
Returned(s) == [kind |-> "return", value |-> s, from |-> "none"]
Raised(fn) == [kind |-> "raise", value |-> <<>>, from |-> fn]

(* ------------------------------- state -------------------------------- *)

VARIABLES
    config,       \* self.config
    analyzers,    \* self.analyzers, as the number of analyzers in the list
    turn_count,   \* self.turn_count
    dbn,          \* the state of self.dbn: how often it was updated and taught
    pc,           \* "idle" between calls, else the next step of run_interaction
    user_input,   \* run_interaction's argument
    context,      \* local of run_interaction
    ai_response,  \* local of run_interaction
    results,      \* local of _analyze_interaction / analysis_results
    trigger,      \* local of run_interaction
    ret,          \* how the last call of run_interaction ended
    calls,        \* history: the collaborator calls of the current call, in order
    outcomes,     \* history: what each analyzer invoked in this call did
    updateArg,    \* history: the results passed to dbn.update
    learnArg,     \* history: the score passed to dbn.learn_from_success
    finished,     \* history: the number of calls that returned or raised
    prevEnded     \* history: the call before this one returned a trigger
                  \*          message or an end-phrase response

vars == <<config, analyzers, turn_count, dbn, pc, user_input, context,
          ai_response, results, trigger, ret, calls, outcomes, updateArg,
          learnArg, finished, prevEnded>>

cfgVars == <<config, analyzers>>

Init ==
    /\ config \in Configs
    /\ analyzers \in 0..MaxAnalyzers
    /\ turn_count = 0
    /\ dbn = [updates |-> 0, learns |-> 0]
    /\ pc = "idle"
    /\ user_input = <<>>
    /\ context = NoContext
    /\ ai_response = <<>>
    /\ results = EmptyDict
    /\ trigger = None
    /\ ret = NoResult
    /\ calls = <<>>
    /\ outcomes = <<>>
    /\ updateArg = EmptyDict
    /\ learnArg = 0
    /\ finished = 0
    /\ prevEnded = FALSE

(* --------------------------- run_interaction --------------------------- *)

\* faulty variant: the counter stops once the cap is reached
CountProcessedOnly(tc) == IF tc >= config.max_turns THEN tc ELSE tc + 1

\* self.turn_count += 1
Increment(tc) == tc + 1

\* faulty variant: >= for >
CappedOffByOne(tc) == tc >= config.max_turns

\* faulty variant: the cap comes one call late
CappedLate(tc) == tc > config.max_turns + 1

\* if self.turn_count > self.config['simulation']['max_turns']
Capped(tc) == tc > config.max_turns

\* any(phrase in ai_response.lower() for phrase in end_phrases)
EndPhraseHit(resp) ==
    \E i \in 1..Len(config.end_phrases) :
        Contains(config.end_phrases[i], Lower(resp))

\* faulty variant: the end phrases are looked at before the trigger
EndPhraseFirst(t, resp) ==
    IF EndPhraseHit(resp) THEN resp \o EndSuffix
    ELSE IF t # None THEN t.message
    ELSE resp

\* what run_interaction returns once check_triggers has answered
Outcome(t, resp) ==
    IF t # None THEN t.message
    ELSE IF EndPhraseHit(resp) THEN resp \o EndSuffix
    ELSE resp

\* the last call returned a trigger message or an end-phrase response
EndedConversation ==
    /\ ret.kind = "return"
    /\ calls # <<>>
    /\ (trigger # None \/ ret.value = ai_response \o EndSuffix)

\* the position after the response, and after analyzer i
AfterAnalyzer(i) == IF i >= analyzers THEN "dbn.update" ELSE "analyze"

\* an exception leaves run_interaction: nothing in the method catches it
Propagate(fn) ==
    /\ pc' = "idle"
    /\ ret' = Raised(fn)
    /\ calls' = Append(calls, Call(fn, 0, FALSE))
    /\ finished' = finished + 1

\* a collaborator call that came back
Proceed(fn, next) ==
    /\ pc' = next
    /\ calls' = Append(calls, Call(fn, 0, TRUE))
    /\ UNCHANGED <<ret, finished>>

\* faulty variant: once the conversation has ended no turn is processed
LatchedEntry(u) ==
    /\ turn_count' = Increment(turn_count)
    /\ user_input' = u
    /\ prevEnded' = EndedConversation
    /\ context' = NoContext
    /\ ai_response' = <<>>
    /\ results' = EmptyDict
    /\ trigger' = None
    /\ calls' = <<>>
    /\ outcomes' = <<>>
    /\ updateArg' = EmptyDict
    /\ learnArg' = 0
    /\ IF Capped(turn_count') \/ EndedConversation
       THEN /\ pc' = "idle"
            /\ ret' = Returned(MaxTurnMessage)
            /\ finished' = finished + 1
       ELSE /\ pc' = "dbn.get_context"
            /\ ret' = NoResult
            /\ finished' = finished
    /\ UNCHANGED <<cfgVars, dbn>>

\* entry of run_interaction, up to the max-turn check
Entry(u) ==
    /\ turn_count' = Increment(turn_count)
    /\ user_input' = u
    /\ prevEnded' = EndedConversation
    /\ context' = NoContext
    /\ ai_response' = <<>>
    /\ results' = EmptyDict
    /\ trigger' = None
    /\ calls' = <<>>
    /\ outcomes' = <<>>
    /\ updateArg' = EmptyDict
    /\ learnArg' = 0
    /\ IF Capped(turn_count')
       THEN /\ pc' = "idle"
            /\ ret' = Returned(MaxTurnMessage)
            /\ finished' = finished + 1
       ELSE /\ pc' = "dbn.get_context"
            /\ ret' = NoResult
            /\ finished' = finished
    /\ UNCHANGED <<cfgVars, dbn>>

RunInteraction ==
    /\ pc = "idle"
    /\ turn_count < MaxCalls
    /\ \E u \in UserInputs : Entry(u)

\* dbn_context = self.dbn.get_context()
GetContext ==
    /\ pc = "dbn.get_context"
    /\ \/ /\ Proceed("dbn.get_context", "retriever.retrieve")
          /\ context' = [context EXCEPT !.dbn_context = dbn]
       \/ /\ Propagate("dbn.get_context")
          /\ UNCHANGED context
    /\ UNCHANGED <<cfgVars, turn_count, dbn, user_input, ai_response, results,
                   trigger, outcomes, updateArg, learnArg, prevEnded>>

\* retrieved_knowledge = self.retriever.retrieve(user_input)
Retrieve ==
    /\ pc = "retriever.retrieve"
    /\ \/ /\ Proceed("retriever.retrieve", "knowledge_integrator.integrate")
          /\ context' = [context EXCEPT !.retrieved_knowledge = "retrieved"]
       \/ /\ Propagate("retriever.retrieve")
          /\ UNCHANGED context
    /\ UNCHANGED <<cfgVars, turn_count, dbn, user_input, ai_response, results,
                   trigger, outcomes, updateArg, learnArg, prevEnded>>

\* integrated_knowledge = self.knowledge_integrator.integrate(...), and the
\* dictionary _generate_context returns
Integrate ==
    /\ pc = "knowledge_integrator.integrate"
    /\ \/ /\ Proceed("knowledge_integrator.integrate", "llm.generate(plan)")
          /\ context' = [context EXCEPT !.integrated_knowledge = "integrated",
                                        !.user_input = user_input]
       \/ /\ Propagate("knowledge_integrator.integrate")
          /\ UNCHANGED context
    /\ UNCHANGED <<cfgVars, turn_count, dbn, user_input, ai_response, results,
                   trigger, outcomes, updateArg, learnArg, prevEnded>>

\* plan = self._generate_plan(context)
GeneratePlan ==
    /\ pc = "llm.generate(plan)"
    /\ \/ Proceed("llm.generate(plan)", "llm.generate(response)")
       \/ Propagate("llm.generate(plan)")
    /\ UNCHANGED <<cfgVars, turn_count, dbn, user_input, context, ai_response,
                   results, trigger, outcomes, updateArg, learnArg, prevEnded>>

\* ai_response = self._generate_response(context, plan)
GenerateResponse ==
    /\ pc = "llm.generate(response)"
    /\ \/ /\ Proceed("llm.generate(response)", AfterAnalyzer(0))
          /\ ai_response' \in Responses
       \/ /\ Propagate("llm.generate(response)")
          /\ UNCHANGED ai_response
    /\ UNCHANGED <<cfgVars, turn_count, dbn, user_input, context, results,
                   trigger, outcomes, updateArg, learnArg, prevEnded>>

\* faulty variant: the analyzer's exception leaves the call
AnalyzerAborts(i) ==
    /\ pc' = "idle"
    /\ ret' = Raised("analyzer.analyze")
    /\ finished' = finished + 1
    /\ UNCHANGED results

\* except Exception: the error is logged and the loop goes on
AnalyzerCaught(i) ==
    /\ pc' = AfterAnalyzer(i)
    /\ UNCHANGED <<results, ret, finished>>

\* one round of the loop of _analyze_interaction
Analyze ==
    /\ pc = "analyze"
    /\ LET i == Len(outcomes) + 1 IN
       \E o \in AnalyzerOutcomes :
          /\ outcomes' = Append(outcomes, o)
          /\ calls' = Append(calls, Call("analyzer.analyze", i, ~o.raised))
          /\ \/ /\ ~o.raised
                /\ results' = DictUpdate(results, o.value)
                /\ pc' = AfterAnalyzer(i)
                /\ UNCHANGED <<ret, finished>>
             \/ /\ o.raised
                /\ AnalyzerCaught(i)
    /\ UNCHANGED <<cfgVars, turn_count, dbn, user_input, context, ai_response,
                   trigger, updateArg, learnArg, prevEnded>>

\* faulty variant: an exception of dbn.update is swallowed
UpdateSwallowed ==
    /\ pc = "dbn.update"
    /\ updateArg' = results
    /\ \/ /\ Proceed("dbn.update", "llm.generate(reflection)")
          /\ dbn' = [dbn EXCEPT !.updates = @ + 1]
       \/ /\ pc' = "llm.generate(reflection)"
          /\ calls' = Append(calls, Call("dbn.update", 0, FALSE))
          /\ UNCHANGED <<dbn, ret, finished>>
    /\ UNCHANGED <<cfgVars, turn_count, user_input, context, ai_response,
                   results, trigger, outcomes, learnArg, prevEnded>>

\* self.dbn.update(analysis_results, user_input, ai_response)
Update ==
    /\ pc = "dbn.update"
    /\ updateArg' = results
    /\ \/ /\ Proceed("dbn.update", "llm.generate(reflection)")
          /\ dbn' = [dbn EXCEPT !.updates = @ + 1]
       \/ /\ Propagate("dbn.update")
          /\ UNCHANGED dbn
    /\ UNCHANGED <<cfgVars, turn_count, user_input, context, ai_response,
                   results, trigger, outcomes, learnArg, prevEnded>>

\* faulty variant: no reflection is asked for
ReflectSkipped ==
    /\ pc = "llm.generate(reflection)"
    /\ pc' = "dbn.learn_from_success"
    /\ UNCHANGED <<cfgVars, turn_count, dbn, user_input, context, ai_response,
                   results, trigger, outcomes, updateArg, learnArg, prevEnded,
                   ret, finished, calls>>

\* reflection = self.llm.generate(reflection_prompt)
Reflect ==
    /\ pc = "llm.generate(reflection)"
    /\ \/ Proceed("llm.generate(reflection)", "dbn.learn_from_success")
       \/ Propagate("llm.generate(reflection)")
    /\ UNCHANGED <<cfgVars, turn_count, dbn, user_input, context, ai_response,
                   results, trigger, outcomes, updateArg, learnArg, prevEnded>>

\* faulty variant: the default is 0
SatisfactionNoDefault(r) == DictGet(r, "satisfaction_score", 0)

\* analysis_results.get('satisfaction_score', 0.5)
Satisfaction(r) == DictGet(r, "satisfaction_score", DefaultSatisfaction)

\* self.dbn.learn_from_success(...)
Learn ==
    /\ pc = "dbn.learn_from_success"
    /\ learnArg' = Satisfaction(results)
    /\ \/ /\ Proceed("dbn.learn_from_success", "dbn.check_triggers")
          /\ dbn' = [dbn EXCEPT !.learns = @ + 1]
       \/ /\ Propagate("dbn.learn_from_success")
          /\ UNCHANGED dbn
    /\ UNCHANGED <<cfgVars, turn_count, user_input, context, ai_response,
                   results, trigger, outcomes, updateArg, prevEnded>>

\* trigger = self.dbn.check_triggers(...), and the rest of run_interaction
CheckTriggers ==
    /\ pc = "dbn.check_triggers"
    /\ \/ \E t \in {None} \cup Triggers :
             /\ trigger' = t
             /\ ret' = Returned(Outcome(t, ai_response))
             /\ pc' = "idle"
             /\ calls' = Append(calls, Call("dbn.check_triggers", 0, TRUE))
             /\ finished' = finished + 1
       \/ /\ Propagate("dbn.check_triggers")
          /\ UNCHANGED trigger
    /\ UNCHANGED <<cfgVars, turn_count, dbn, user_input, context, ai_response,
                   results, outcomes, updateArg, learnArg, prevEnded>>

Next ==
    \/ RunInteraction
    \/ GetContext
    \/ Retrieve
    \/ Integrate
    \/ GeneratePlan
    \/ GenerateResponse
    \/ Analyze
    \/ Update
    \/ Reflect
    \/ Learn
    \/ CheckTriggers

Spec == Init /\ [][Next]_vars

(* ------------------------- history, read back -------------------------- *)

Max(S) == CHOOSE x \in S : \A y \in S : y <= x

IsPrefix(s, t) == Len(s) <= Len(t) /\ SubSeq(t, 1, Len(s)) = s

\* the collaborator calls of the current call, in order
CallNames == [i \in 1..Len(calls) |-> <<calls[i].fn, calls[i].who>>]

\* the order of run_interaction's collaborator calls in a turn that is not cut short
ExpectedOrder ==
    << <<"dbn.get_context", 0>>,
       <<"retriever.retrieve", 0>>,
       <<"knowledge_integrator.integrate", 0>>,
       <<"llm.generate(plan)", 0>>,
       <<"llm.generate(response)", 0>> >>
    \o [i \in 1..analyzers |-> <<"analyzer.analyze", i>>]
    \o << <<"dbn.update", 0>>,
          <<"llm.generate(reflection)", 0>>,
          <<"dbn.learn_from_success", 0>>,
          <<"dbn.check_triggers", 0>> >>

Positions(fn) == {i \in 1..Len(calls) : calls[i].fn = fn}

\* the analyzers of this call that returned a dictionary holding key k
Producers(k) ==
    {i \in 1..Len(outcomes) : ~outcomes[i].raised /\ k \in DOMAIN outcomes[i].value}

\* the outputs of the analyzers that did not raise, a later one winning a key
Merged ==
    LET keys == UNION {DOMAIN outcomes[i].value :
                          i \in {j \in 1..Len(outcomes) : ~outcomes[j].raised}}
    IN  [k \in keys |-> outcomes[Max(Producers(k))].value[k]]

\* the last call was a turn that was neither capped nor cut short by an exception
Completed == pc = "idle" /\ ret.kind = "return" /\ calls # <<>>

\* the response was generated and the analyzer loop is over
AnalysisOver == Positions("llm.generate(response)") # {}
                /\ calls[Max(Positions("llm.generate(response)"))].ok
                /\ pc # "analyze"

(* ------------------------------- claims -------------------------------- *)

\* C1: with max_turns = M the k-th call returns the max-turn message exactly
\* when k > M (no collaborator answering with that text); calls 1..M are
\* processed, every later call is capped and invokes nothing.
C1_MaxTurnCap ==
    (pc = "idle" /\ turn_count >= 1) =>
        /\ turn_count > config.max_turns =>
              (ret = Returned(MaxTurnMessage) /\ calls = <<>>)
        /\ turn_count <= config.max_turns =>
              /\ calls # <<>>
              /\ (ret.kind = "return"
                    /\ ai_response # MaxTurnMessage
                    /\ trigger.message # MaxTurnMessage)
                 => ret.value # MaxTurnMessage

\* two capped calls in a row after processed turns
C1_Witness ==
    /\ pc = "idle"
    /\ config.max_turns >= 1
    /\ turn_count = config.max_turns + 2
    /\ dbn.updates >= 1

\* C2: turn_count starts at 0 and is the number of run_interaction calls made,
\* whatever their outcome (return, max-turn message, exception).
C2_TurnCount ==
    turn_count = finished + (IF pc = "idle" THEN 0 ELSE 1)

\* a second call that ended with an exception, after a first that returned
C2_Witness ==
    pc = "idle" /\ ret.kind = "raise" /\ turn_count = 2 /\ dbn.learns = 1

\* C3: in a completed turn without trigger the result is ai_response followed
\* by the end suffix exactly when some end phrase occurs in ai_response with
\* the case of both ignored, and ai_response otherwise.
C3_CaseInsensitiveEndPhrase ==
    (Completed /\ trigger = None) =>
        LET hit == \E i \in 1..Len(config.end_phrases) :
                       Contains(Lower(config.end_phrases[i]), Lower(ai_response))
        IN  ret.value = IF hit THEN ai_response \o EndSuffix ELSE ai_response

\* C4: every analyzer is invoked once, in list order, whichever of them raise;
\* no exception of an analyzer leaves the call; the turn goes on to dbn.update,
\* which gets the outputs of the analyzers that did not raise, merged in order.
C4_AnalyzerIsolation ==
    /\ ret.kind = "raise" => ret.from # "analyzer.analyze"
    /\ AnalysisOver =>
          LET done == SelectSeq(calls, LAMBDA c : c.fn = "analyzer.analyze") IN
          /\ Len(done) = analyzers
          /\ Len(outcomes) = analyzers
          /\ \A i \in 1..analyzers :
                done[i].who = i /\ done[i].ok = ~outcomes[i].raised
          /\ results = Merged
          /\ \/ pc = "dbn.update"
             \/ Positions("dbn.update") # {} /\ updateArg = Merged

\* the first analyzer raised, the second one still ran and the turn completed
C4_Witness ==
    /\ Completed
    /\ analyzers = 2
    /\ outcomes[1].raised
    /\ ~outcomes[2].raised
    /\ updateArg = outcomes[2].value

\* C5: a collaborator other than an analyzer that raises ends the call with
\* that exception, and no later collaborator call is made.
C5_FailurePropagates ==
    \A i \in 1..Len(calls) :
        (~calls[i].ok /\ calls[i].fn # "analyzer.analyze") =>
            /\ i = Len(calls)
            /\ pc = "idle"
            /\ ret = Raised(calls[i].fn)

\* the response could not be generated: no analyzer ran, dbn.update was not called
C5_Witness ==
    /\ pc = "idle"
    /\ analyzers = 2
    /\ ret = Raised("llm.generate(response)")
    /\ Positions("analyzer.analyze") = {}
    /\ Positions("dbn.update") = {}

\* C6: the collaborator calls of a turn are made in one fixed order, and a
\* completed turn made all of them; the context was read from the DBN before
\* the turn changed it.
C6_FixedOrder ==
    /\ IsPrefix(CallNames, ExpectedOrder)
    /\ Completed =>
          /\ CallNames = ExpectedOrder
          /\ context.dbn_context =
                 [updates |-> dbn.updates - 1, learns |-> dbn.learns - 1]

\* a completed turn with two analyzers, on a DBN changed by an earlier turn
C6_Witness ==
    Completed /\ analyzers = 2 /\ dbn.updates = 2

\* C7: when check_triggers returns a trigger the result is its message, end
\* phrase or not; an end-phrase result means that no trigger fired.
C7_TriggerPrecedence ==
    Completed =>
        /\ trigger # None => ret.value = trigger.message
        /\ ret.value = ai_response \o EndSuffix => trigger = None

\* a trigger fired on a response that holds an end phrase
C7_Witness ==
    Completed /\ trigger # None /\ EndPhraseHit(ai_response)

\* C8: a call entered with turn_count >= max_turns only increments turn_count:
\* it calls no collaborator and leaves the DBN and the configuration alone.
C8_CappedCallNoEffect ==
    [][(pc = "idle" /\ turn_count >= config.max_turns /\ turn_count' # turn_count)
         => /\ turn_count' = turn_count + 1
            /\ pc' = "idle"
            /\ calls' = <<>>
            /\ dbn' = dbn
            /\ config' = config
            /\ analyzers' = analyzers]_vars

\* a capped call on a DBN that processed turns have changed
C8_Witness ==
    pc = "idle" /\ turn_count > config.max_turns /\ calls = <<>> /\ dbn.updates >= 1

\* C9: the call after one that returned a trigger message or an end-phrase
\* response is processed like any other while turn_count <= max_turns.
C9_NoLatch ==
    (pc = "idle" /\ prevEnded /\ turn_count <= config.max_turns) =>
        /\ calls # <<>>
        /\ ret.kind = "return" =>
              /\ CallNames = ExpectedOrder
              /\ \A i \in 1..Len(calls) :
                    calls[i].fn # "analyzer.analyze" => calls[i].ok

\* a full turn right after the conversation had ended
C9_Witness ==
    Completed /\ prevEnded /\ turn_count <= config.max_turns /\ dbn.updates = 2

\* C10: a completed turn calls dbn.learn_from_success once, after dbn.update,
\* with the merged satisfaction_score if an analyzer that did not raise gave
\* one, and with 0.5 otherwise.
C10_LearnFromSuccess ==
    Completed =>
        /\ Cardinality(Positions("dbn.learn_from_success")) = 1
        /\ \A i \in Positions("dbn.update") :
              \A j \in Positions("dbn.learn_from_success") : i < j
        /\ learnArg =
              IF Producers("satisfaction_score") # {}
              THEN outcomes[Max(Producers("satisfaction_score"))]
                       .value["satisfaction_score"]
              ELSE DefaultSatisfaction

\* every analyzer raised and the default was passed
C10_Witness ==
    /\ Completed
    /\ analyzers = 2
    /\ \A i \in 1..2 : outcomes[i].raised
    /\ learnArg = DefaultSatisfaction

====
